---- MODULE Spec2Model ----
(***************************************************************************)
(* Model of landscape-node: the command-line workflow that executes a      *)
(* Landscape script on a group of servers and polls until it finishes.     *)
(* Two variants of the workflow live in the repository: the cli            *)
(* (src/unnamed/part_000, with Slack notifications) and deploy.js          *)
(* (no notifications).  The variable prog selects the variant.             *)
(*                                                                         *)
(* JavaScript strings that the program inspects character by character     *)
(* (toLowerCase, <, JSON.stringify, template concatenation) are turned     *)
(* into sequences of UTF-16 code units by Chars.  A nullable JavaScript    *)
(* value is a sequence of length 0 (null) or 1 (the value).                *)
(***************************************************************************)
EXTENDS Integers, Sequences, FiniteSets, TLC

----------------------------------------------------------------------------
(* Bounds of the model *)

\* largest number of child activities the remote creates for one run
MaxChildren == 2
\* the same, in the specification with fairness
MaxLiveChildren == 1
\* longest report drawn as an input of the pure functions
MaxEqLen == 2

----------------------------------------------------------------------------
(* Strings *)

Null == << >>
Some(x) == << x >>

\* the UTF-16 code units of the string literals the model uses
Chars(s) ==
  IF s = "B-host" THEN <<66, 45, 104, 111, 115, 116>> ELSE
  IF s = "a-host" THEN <<97, 45, 104, 111, 115, 116>> ELSE
  IF s = "A-host" THEN <<65, 45, 104, 111, 115, 116>> ELSE
  IF s = "queued" THEN <<113, 117, 101, 117, 101, 100>> ELSE
  IF s = "succeeded" THEN <<115, 117, 99, 99, 101, 101, 100, 101, 100>> ELSE
  IF s = "failed" THEN <<102, 97, 105, 108, 101, 100>> ELSE
  IF s = "canceled" THEN <<99, 97, 110, 99, 101, 108, 101, 100>> ELSE
  IF s = "** ALL (Summary) **" THEN <<42, 42, 32, 65, 76, 76, 32, 40, 83, 117, 109, 109, 97, 114, 121, 41, 32, 42, 42>> ELSE
  IF s = "-" THEN <<45>> ELSE
  IF s = "computer_name" THEN <<99, 111, 109, 112, 117, 116, 101, 114, 95, 110, 97, 109, 101>> ELSE
  IF s = "computer_id" THEN <<99, 111, 109, 112, 117, 116, 101, 114, 95, 105, 100>> ELSE
  IF s = "activity_id" THEN <<97, 99, 116, 105, 118, 105, 116, 121, 95, 105, 100>> ELSE
  IF s = "activity_status" THEN <<97, 99, 116, 105, 118, 105, 116, 121, 95, 115, 116, 97, 116, 117, 115>> ELSE
  << >>

\* String.prototype.toLowerCase on code units: A..Z become a..z
toLowerCase(cs) ==
  [i \in 1..Len(cs) |-> IF cs[i] >= 65 /\ cs[i] <= 90 THEN cs[i] + 32 ELSE cs[i]]

\* the JavaScript relational operator < on two strings: the first code
\* unit at which they differ decides, and a proper prefix is smaller
StrLess(a, b) ==
  \E i \in 1..Len(b) :
    /\ \A j \in 1..(i - 1) : j <= Len(a) /\ a[j] = b[j]
    /\ (i > Len(a) \/ a[i] < b[i])

\* the decimal digits of a non-negative integer, as String(n) writes them
RECURSIVE NumStr(_)
NumStr(n) ==
  IF n < 10 THEN << 48 + n >> ELSE NumStr(n \div 10) \o << 48 + (n % 10) >>

\* the concatenation of the strings ss[i], ..., ss[n]
RECURSIVE ConcatFrom(_, _, _)
ConcatFrom(ss, i, n) ==
  IF i > n THEN << >> ELSE ss[i] \o ConcatFrom(ss, i + 1, n)

Concat(ss) == ConcatFrom(ss, 1, Len(ss))

----------------------------------------------------------------------------
(* Program constants *)

gSummaryRecord == "** ALL (Summary) **"

\* the statuses of the management API that the loop treats as finished
Terminal == {"canceled", "failed", "succeeded"}
Statuses == {"queued"} \cup Terminal
\* the status in which the remote leaves a finished child activity (main
\* copies the status of a child into the report and never branches on it)
ChildFinished == {"succeeded"}
\* how many records the id query for the parent activity may return:
\* none, the expected one, or more than one
ParentMatches == {0, 1, 2}

\* the computers known to the management API: id |-> hostname
Hostname(id) == IF id = 1 THEN "B-host" ELSE IF id = 2 THEN "a-host" ELSE "A-host"
ComputerIds == {1, 2, 3}

\* the id the management API gives the parent activity, and the ids of
\* its child activities
ParentId == 100
ChildId(i) == ParentId + i

\* JavaScript values of the computer_id field: a number or the string '-'
JsNum(n) == << "number", n >>
JsStr(s) == << "string", s >>

----------------------------------------------------------------------------
(* Pure functions of the program *)

\* JSON.stringify of a string: quotes, with ", \ and newline escaped
JsonEscape(cs) ==
  Concat([i \in 1..Len(cs) |->
            IF cs[i] = 34 THEN << 92, 34 >>
            ELSE IF cs[i] = 92 THEN << 92, 92 >>
            ELSE IF cs[i] = 10 THEN << 92, 110 >>
            ELSE << cs[i] >>])

JsonString(cs) == << 34 >> \o JsonEscape(cs) \o << 34 >>

\* JSON.stringify of a number or a string value
JsonValue(v) == IF v[1] = "number" THEN NumStr(v[2]) ELSE JsonString(Chars(v[2]))

\* JSON.stringify of one record: its four keys in the order the object
\* literal lists them
JsonRecord(r) ==
  << 123 >> \o
  JsonString(Chars("computer_name")) \o << 58 >> \o JsonString(Chars(r.computer_name)) \o << 44 >> \o
  JsonString(Chars("computer_id")) \o << 58 >> \o JsonValue(r.computer_id) \o << 44 >> \o
  JsonString(Chars("activity_id")) \o << 58 >> \o NumStr(r.activity_id) \o << 44 >> \o
  JsonString(Chars("activity_status")) \o << 58 >> \o JsonString(Chars(r.activity_status)) \o
  << 125 >>

\* the elements of an array, separated by commas
JsonElements(rs) ==
  Concat([i \in 1..Len(rs) |->
            IF i = 1 THEN JsonRecord(rs[i]) ELSE << 44 >> \o JsonRecord(rs[i])])

\* JSON.stringify of a nullable report: "null" or "[" records "]"
JSONstringify(optReport) ==
  IF optReport = Null THEN << 110, 117, 108, 108 >>
  ELSE << 91 >> \o JsonElements(optReport[1]) \o << 93 >>

\* a plausible slip: the two strings are compared by length only
isEqualByLength(report1, report2) ==
  Len(JSONstringify(report1)) = Len(JSONstringify(report2))

\* a plausible slip: only the status of each record takes part
isEqualStatusOnly(report1, report2) ==
  LET statuses(o) == IF o = Null THEN << >>
                     ELSE [i \in 1..Len(o[1]) |-> o[1][i].activity_status]
  IN  statuses(report1) = statuses(report2)

\* a plausible slip: the summary record, the last of a report, is left out
\* of the comparison
isEqualIgnoringSummary(report1, report2) ==
  LET children(o) == IF o = Null \/ o[1] = << >> THEN o
                     ELSE Some(SubSeq(o[1], 1, Len(o[1]) - 1))
  IN  JSONstringify(children(report1)) = JSONstringify(children(report2))

isEqual(report1, report2) ==
  LET report1String == JSONstringify(report1)
      report2String == JSONstringify(report2)
  IN  report1String = report2String

\* a plausible slip: the line terminator is left out
convertNoNewline(activityReport) ==
  Concat([i \in 1..Len(activityReport) |->
            Chars(activityReport[i].computer_name) \o << 58, 32 >> \o
            Chars(activityReport[i].activity_status)])

convertDetailedActivityReportToText(activityReport) ==
  Concat([i \in 1..Len(activityReport) |->
            Chars(activityReport[i].computer_name) \o << 58, 32 >> \o
            Chars(activityReport[i].activity_status) \o << 10 >>])

BoolToNumber(b) == IF b THEN 1 ELSE 0

\* a plausible slip: the comparator forgets toLowerCase
compareCaseSensitive(a, b) ==
  BoolToNumber(StrLess(Chars(b.computer_name), Chars(a.computer_name))) -
  BoolToNumber(StrLess(Chars(a.computer_name), Chars(b.computer_name)))

\* the comparator handed to report.sort
compareByName(a, b) ==
  BoolToNumber(StrLess(toLowerCase(Chars(b.computer_name)), toLowerCase(Chars(a.computer_name)))) -
  BoolToNumber(StrLess(toLowerCase(Chars(a.computer_name)), toLowerCase(Chars(b.computer_name))))

\* Array.prototype.sort with this comparator, on a short array: the
\* runtime sorts arrays of up to ten elements by insertion, moving an
\* element left past every element the comparator puts after it
RECURSIVE InsertRecord(_, _)
InsertRecord(sorted, e) ==
  IF sorted = << >> THEN << e >>
  ELSE IF compareByName(sorted[Len(sorted)], e) > 0
       THEN InsertRecord(SubSeq(sorted, 1, Len(sorted) - 1), e) \o << sorted[Len(sorted)] >>
       ELSE sorted \o << e >>

RECURSIVE ArraySort(_)
ArraySort(a) ==
  IF a = << >> THEN << >>
  ELSE InsertRecord(ArraySort(SubSeq(a, 1, Len(a) - 1)), a[Len(a)])

\* the record built for one child activity
ChildRecord(childActivity, servers) ==
  [computer_name |-> servers[childActivity.computer_id].hostname,
   computer_id |-> JsNum(childActivity.computer_id),
   activity_id |-> childActivity.id,
   activity_status |-> childActivity.activity_status]

\* the summary record built from the first record of the parent lookup
SummaryRecord(parentActivity) ==
  [computer_name |-> gSummaryRecord,
   computer_id |-> JsStr("-"),
   activity_id |-> parentActivity.id,
   activity_status |-> parentActivity.activity_status]

\* getServers: the list of computers turned into a map keyed on id
getServers(tmpServers) ==
  [id \in {tmpServers[i].id : i \in 1..Len(tmpServers)} |->
     LET last == CHOOSE i \in 1..Len(tmpServers) :
                   /\ tmpServers[i].id = id
                   /\ \A j \in 1..Len(tmpServers) : tmpServers[j].id = id => j <= i
     IN  tmpServers[last]]

----------------------------------------------------------------------------
(* The management API and the command line, as the program sees them *)

\* values commander leaves in program.script (after parseInt) and program.tag
ScriptArgs == {"undefined", "NaN", "0", "28"}
TagArgs == {"undefined", "", "ply-servers"}
\* a plausible slip: an absent option is not taken for falsy
FalsyButUndefined(v) == v \in {"NaN", "0", ""}

\* the JavaScript values that ! turns into true
Falsy(v) == v \in {"undefined", "NaN", "0", ""}

\* exit codes of the node process: process.exit() without a code, an
\* uncaught exception, and main returning
ExitHelp == 0
ExitUncaught == 1
ExitReturned == 0

\* the elements of a set of numbers in ascending order
SetToSeq(S) ==
  [i \in 1..Cardinality(S) |->
     CHOOSE x \in S : Cardinality({y \in S : y < x}) = i - 1]

\* the answer of get-computers: the records of the tagged computers
ComputerList(tagged) ==
  LET ids == SetToSeq(tagged)
  IN  [i \in 1..Len(ids) |-> [id |-> ids[i], hostname |-> Hostname(ids[i])]]

\* the orders in which the API may list the child activities of a run:
\* one child per targeted computer
ChildOrders(max) ==
  {s \in UNION {[1..n -> ComputerIds] : n \in 0..max} :
     \A i, j \in 1..Len(s) : i # j => s[i] # s[j]}

VARIABLES
  prog,                    \* "cli" or "deploy": which main runs
  pc,                      \* position of main
  exitCode,                \* Null while the process runs, else Some(code)
  program,                 \* Null before parsing, else Some(the parsed options)
  gLandscapeScript,
  gLandscapeActivityGroup,
  gServers,                \* Null, else Some(map from computer id to server)
  parentActivity,          \* Null, else Some(the activity executeScript returned)
  childActivities,         \* the child activities fetched on the current tick
  report,                  \* generateDetailedActivityReport's local array
  oldActivityReport,
  newActivityReport,
  printed,                 \* whether the last tick printed its report
  console,                 \* Null, else Some(the last report printed)
  notifications,           \* the webhook posts made so far
  finalLog,                \* Null, else Some(the final log record)
  calls,                   \* the kinds of remote call made so far
  uncaught,                \* Null, else Some(the error that ended the run)
  apiChildren,             \* remote: the child activities of the run
  apiParent,               \* remote: the records the parent id query returns
  r1, r2,                  \* inputs of the pure functions
  eqResult,                \* Null, else Some(isEqual(r1, r2))
  text                     \* Null, else Some(the rendering of r1)

mainVars == << prog, pc, exitCode, program, gLandscapeScript, gLandscapeActivityGroup,
               gServers, parentActivity, childActivities, report, oldActivityReport,
               newActivityReport, printed, console, notifications, finalLog, calls, uncaught,
               apiChildren, apiParent >>
pureVars == << r1, r2, eqResult, text >>
vars == << mainVars, pureVars >>

LoopPcs == {"loop", "getParent"}

MainInit ==
  /\ pc = "start"
  /\ exitCode = Null
  /\ program = Null
  /\ gLandscapeScript = "null"
  /\ gLandscapeActivityGroup = "null"
  /\ gServers = Null
  /\ parentActivity = Null
  /\ childActivities = << >>
  /\ report = << >>
  /\ oldActivityReport = Null
  /\ newActivityReport = Null
  /\ printed = FALSE
  /\ console = Null
  /\ notifications = << >>
  /\ finalLog = Null
  /\ calls = {}
  /\ uncaught = Null
  /\ apiChildren = << >>
  /\ apiParent = << >>

PureIdle ==
  /\ r1 = Null
  /\ r2 = Null
  /\ eqResult = Null
  /\ text = Null

Init ==
  /\ prog \in {"cli", "deploy"}
  /\ MainInit
  /\ PureIdle

----------------------------------------------------------------------------
(* The steps of main.  A step runs from one blocking remote call up to    *)
(* the next one.                                                           *)

\* a plausible slip: a catch-all swallows the exception and the run ends
\* as if it had completed
ThrowSwallowed(error) ==
  /\ pc' = "done"
  /\ exitCode' = Some(ExitReturned)
  /\ UNCHANGED uncaught

\* an uncaught exception ends the node process
Throw(error) ==
  /\ pc' = "crashed"
  /\ uncaught' = Some(error)
  /\ exitCode' = Some(ExitUncaught)

\* a plausible slip: the POST is retried although it went through
postSlackNotificationTwice(kind, body) ==
  /\ notifications' = notifications \o << [kind |-> kind, text |-> body],
                                           [kind |-> kind, text |-> body] >>
  /\ calls' = calls \cup {"webhook"}

\* postSlackNotification: one POST to the webhook, carrying the text
postSlackNotification(kind, body) ==
  /\ notifications' = Append(notifications, [kind |-> kind, text |-> body])
  /\ calls' = calls \cup {"webhook"}

\* processCommandLineArgs: parse, and leave through program.help() when a
\* required option is falsy
processCommandLineArgs ==
  /\ pc = "start"
  /\ \E script \in ScriptArgs, tag \in TagArgs :
       /\ program' = Some([script |-> script, tag |-> tag])
       /\ IF Falsy(script) \/ Falsy(tag)
          THEN /\ pc' = "help"
               /\ exitCode' = Some(ExitHelp)
               /\ UNCHANGED << gLandscapeScript, gLandscapeActivityGroup >>
          ELSE /\ gLandscapeActivityGroup' = tag
               /\ gLandscapeScript' = script
               /\ pc' = "getServers"
               /\ exitCode' = Null
  /\ UNCHANGED << prog, gServers, parentActivity, childActivities, report,
                  oldActivityReport, newActivityReport, printed, console,
                  notifications, finalLog, calls, uncaught, apiChildren, apiParent >>
  /\ UNCHANGED pureVars

\* main: gServers = getServers(gLandscapeActivityGroup)
ResolveServers ==
  /\ pc = "getServers"
  /\ calls' = calls \cup {"getComputers"}
  /\ \E tagged \in SUBSET ComputerIds :
       gServers' = Some(getServers(ComputerList(tagged)))
  /\ pc' = IF prog = "cli" THEN "notifyStart" ELSE "execute"
  /\ UNCHANGED << prog, exitCode, program, gLandscapeScript, gLandscapeActivityGroup,
                  parentActivity, childActivities, report, oldActivityReport,
                  newActivityReport, printed, console, notifications, finalLog,
                  uncaught, apiChildren, apiParent >>
  /\ UNCHANGED pureVars

\* main (cli): the notification that the deployment starts
NotifyStart ==
  /\ pc = "notifyStart"
  /\ postSlackNotification("start",
       << "I am deploying software using Landscape script '", gLandscapeScript,
          "' for the group of servers called '", gLandscapeActivityGroup, "'..." >>)
  /\ pc' = "execute"
  /\ UNCHANGED << prog, exitCode, program, gLandscapeScript, gLandscapeActivityGroup,
                  gServers, parentActivity, childActivities, report, oldActivityReport,
                  newActivityReport, printed, console, finalLog, uncaught,
                  apiChildren, apiParent >>
  /\ UNCHANGED pureVars

\* main: executeScript; the remote creates the parent activity and one
\* child activity per targeted computer, all queued
Execute(orders) ==
  /\ pc = "execute"
  /\ calls' = calls \cup {"executeScript"}
  /\ \E order \in orders, n \in ParentMatches :
       /\ apiChildren' = [i \in 1..Len(order) |->
                            [id |-> ChildId(i), computer_id |-> order[i],
                             activity_status |-> "queued"]]
       /\ apiParent' = [i \in 1..n |-> [id |-> ParentId, activity_status |-> "queued"]]
  /\ parentActivity' = Some([id |-> ParentId])
  /\ pc' = "loop"
  /\ UNCHANGED << prog, exitCode, program, gLandscapeScript, gLandscapeActivityGroup,
                  gServers, childActivities, report, oldActivityReport,
                  newActivityReport, printed, console, notifications, finalLog,
                  uncaught >>
  /\ UNCHANGED pureVars

ExecuteScript == Execute(ChildOrders(MaxChildren))

\* the loop body up to the parent lookup: sleep, then the first half of
\* generateDetailedActivityReport (fetch the children, build and sort)
FetchChildren ==
  /\ pc = "loop"
  /\ calls' = calls \cup {"getChildActivities"}
  /\ childActivities' = apiChildren
  /\ IF \E i \in 1..Len(apiChildren) : apiChildren[i].computer_id \notin DOMAIN gServers[1]
     THEN /\ Throw("TypeError: gServers[computer_id] is undefined")
          /\ report' = << >>
     ELSE /\ report' = ArraySort([i \in 1..Len(apiChildren) |->
                                    ChildRecord(apiChildren[i], gServers[1])])
          /\ pc' = "getParent"
          /\ UNCHANGED << exitCode, uncaught >>
  /\ UNCHANGED << prog, program, gLandscapeScript, gLandscapeActivityGroup, gServers,
                  parentActivity, oldActivityReport, newActivityReport, printed,
                  console, notifications, finalLog, apiChildren, apiParent >>
  /\ UNCHANGED pureVars

\* a plausible slip: one of the three finished statuses is forgotten
LoopContinuesNoCanceled(status) ==
  status # "failed" /\ status # "succeeded"

\* a plausible slip: the loop condition never becomes false
LoopContinuesForever(status) == TRUE

\* the condition of the do-while loop, on the status of the summary record
LoopContinues(status) ==
  status # "canceled" /\ status # "failed" /\ status # "succeeded"

\* the rest of the tick: the parent lookup and the summary record, then
\* the comparison with the last report, the print and the loop condition
FetchParent ==
  /\ pc = "getParent"
  /\ calls' = calls \cup {"getActivities"}
  /\ IF apiParent = << >>
     THEN /\ Throw("TypeError: parentActivity is undefined")
          /\ UNCHANGED << report, oldActivityReport, newActivityReport, printed, console >>
     ELSE LET new == Append(report, SummaryRecord(apiParent[1]))
              summaryReportIndex == Len(new)
              status == new[summaryReportIndex].activity_status
          IN  /\ newActivityReport' = Some(new)
              /\ printed' = ~isEqual(oldActivityReport, Some(new))
              /\ console' = IF printed' THEN Some(new) ELSE console
              /\ oldActivityReport' = Some(new)
              /\ report' = << >>
              /\ pc' = IF LoopContinues(status)
                       THEN "loop"
                       ELSE IF prog = "cli" THEN "notifyEnd" ELSE "logFinal"
              /\ UNCHANGED << exitCode, uncaught >>
  /\ UNCHANGED << prog, program, gLandscapeScript, gLandscapeActivityGroup, gServers,
                  parentActivity, childActivities, notifications, finalLog,
                  apiChildren, apiParent >>
  /\ UNCHANGED pureVars

\* main (cli): the notification that the deployment ended
NotifyEnd ==
  /\ pc = "notifyEnd"
  /\ postSlackNotification("end",
       << "I have finished deploying software using Landscape script '", gLandscapeScript,
          "' for the group of servers called '", gLandscapeActivityGroup,
          "'.  Here are the details for each server:" >>)
  /\ pc' = "notifyDetail"
  /\ UNCHANGED << prog, exitCode, program, gLandscapeScript, gLandscapeActivityGroup,
                  gServers, parentActivity, childActivities, report, oldActivityReport,
                  newActivityReport, printed, console, finalLog, uncaught,
                  apiChildren, apiParent >>
  /\ UNCHANGED pureVars

\* main (cli): the notification carrying the final report as text
NotifyDetail ==
  /\ pc = "notifyDetail"
  /\ postSlackNotification("detail",
       convertDetailedActivityReportToText(newActivityReport[1]))
  /\ pc' = "logFinal"
  /\ UNCHANGED << prog, exitCode, program, gLandscapeScript, gLandscapeActivityGroup,
                  gServers, parentActivity, childActivities, report, oldActivityReport,
                  newActivityReport, printed, console, finalLog, uncaught,
                  apiChildren, apiParent >>
  /\ UNCHANGED pureVars

\* a plausible change: a failed deployment makes the process exit with 1
LogFinalFailedExitsOne ==
  /\ pc = "logFinal"
  /\ LET new == newActivityReport[1]
         status == new[Len(new)].activity_status
     IN  /\ finalLog' = Some([level |-> IF status = "succeeded" \/ status = "canceled"
                                        THEN "info" ELSE "error",
                             status |-> status])
         /\ exitCode' = IF status = "failed" THEN Some(1) ELSE Some(ExitReturned)
  /\ pc' = "done"
  /\ UNCHANGED << prog, program, gLandscapeScript, gLandscapeActivityGroup, gServers,
                  parentActivity, childActivities, report, oldActivityReport,
                  newActivityReport, printed, console, notifications, calls,
                  uncaught, apiChildren, apiParent >>
  /\ UNCHANGED pureVars

\* main: the final log record; main returns and the process exits
LogFinal ==
  /\ pc = "logFinal"
  /\ LET new == newActivityReport[1]
         status == new[Len(new)].activity_status
     IN  finalLog' = Some([level |-> IF status = "succeeded" \/ status = "canceled"
                                      THEN "info" ELSE "error",
                           status |-> status])
  /\ pc' = "done"
  /\ exitCode' = Some(ExitReturned)
  /\ UNCHANGED << prog, program, gLandscapeScript, gLandscapeActivityGroup, gServers,
                  parentActivity, childActivities, report, oldActivityReport,
                  newActivityReport, printed, console, notifications, calls,
                  uncaught, apiChildren, apiParent >>
  /\ UNCHANGED pureVars

\* the positions at which main is about to make a remote call
RemoteCallPcs == {"getServers", "notifyStart", "execute", "loop", "getParent",
                  "notifyEnd", "notifyDetail"}

\* a remote call fails: execSync or the API wrapper throws, nothing catches
RemoteCallFails ==
  /\ pc \in RemoteCallPcs
  /\ Throw("RemoteCallError")
  /\ UNCHANGED << prog, program, gLandscapeScript, gLandscapeActivityGroup, gServers,
                  parentActivity, childActivities, report, oldActivityReport,
                  newActivityReport, printed, console, notifications, finalLog,
                  calls, apiChildren, apiParent >>
  /\ UNCHANGED pureVars

\* the remote side: while the run polls, a queued activity finishes (the
\* records of one id query describe one activity and change together)
RemoteProgress ==
  /\ pc \in LoopPcs
  /\ \/ /\ \E i \in 1..Len(apiChildren), s \in ChildFinished :
            /\ apiChildren[i].activity_status = "queued"
            /\ apiChildren' = [apiChildren EXCEPT ![i].activity_status = s]
       /\ UNCHANGED apiParent
     \/ /\ apiParent # << >>
        /\ apiParent[1].activity_status = "queued"
        /\ \E s \in Terminal :
             apiParent' = [j \in 1..Len(apiParent) |->
                             [apiParent[j] EXCEPT !.activity_status = s]]
        /\ UNCHANGED apiChildren
  /\ UNCHANGED << prog, pc, exitCode, program, gLandscapeScript, gLandscapeActivityGroup,
                  gServers, parentActivity, childActivities, report, oldActivityReport,
                  newActivityReport, printed, console, notifications, finalLog,
                  calls, uncaught >>
  /\ UNCHANGED pureVars

Next ==
  \/ processCommandLineArgs
  \/ ResolveServers
  \/ NotifyStart
  \/ ExecuteScript
  \/ FetchChildren
  \/ FetchParent
  \/ NotifyEnd
  \/ NotifyDetail
  \/ LogFinal
  \/ RemoteCallFails
  \/ RemoteProgress

Spec == Init /\ [][Next]_vars

\* The specification with fairness.  main is a single thread whose
\* blocking calls return or throw: while the process lives its position
\* keeps moving.
ExecuteScriptLive == Execute(ChildOrders(MaxLiveChildren))

NextLive ==
  \/ processCommandLineArgs
  \/ ResolveServers
  \/ NotifyStart
  \/ ExecuteScriptLive
  \/ FetchChildren
  \/ FetchParent
  \/ NotifyEnd
  \/ NotifyDetail
  \/ LogFinal
  \/ RemoteCallFails
  \/ RemoteProgress

RunningPcs == {"start", "getServers", "notifyStart", "execute", "loop", "getParent",
               "notifyEnd", "notifyDetail", "logFinal"}

PcMoves == pc \in RunningPcs /\ pc' \in (RunningPcs \cup {"help", "crashed", "done"}) \ {pc}

SpecLive == Init /\ [][NextLive]_vars /\ WF_pc(PcMoves)

\* The specification under the assumption main's comment states: the
\* remote sets the parent activity to a finished status only when every
\* child activity has finished.
AllChildrenFinished(children) ==
  \A i \in 1..Len(children) : children[i].activity_status \in Terminal

RemoteProgressOrdered ==
  /\ RemoteProgress
  /\ apiParent' # apiParent => AllChildrenFinished(apiChildren)

NextOrdered ==
  \/ processCommandLineArgs
  \/ ResolveServers
  \/ NotifyStart
  \/ ExecuteScriptLive
  \/ FetchChildren
  \/ FetchParent
  \/ NotifyEnd
  \/ NotifyDetail
  \/ LogFinal
  \/ RemoteCallFails
  \/ RemoteProgressOrdered

SpecOrdered == Init /\ [][NextOrdered]_vars

----------------------------------------------------------------------------
(* The pure functions applied to drawn inputs *)

EqRecords ==
  LET base == [computer_name |-> "a-host", computer_id |-> JsNum(1),
               activity_id |-> 11, activity_status |-> "queued"]
  IN  { base,
        [base EXCEPT !.computer_name = "A-host"],
        [base EXCEPT !.computer_id = JsNum(11)],
        [base EXCEPT !.activity_id = 1],
        [base EXCEPT !.activity_status = "failed"],
        SummaryRecord([id |-> ParentId, activity_status |-> "succeeded"]) }

EqReports == UNION {[1..n -> EqRecords] : n \in 0..MaxEqLen}
EqInputs == {Null} \cup {Some(r) : r \in EqReports}

InitPure ==
  /\ prog = "cli"
  /\ MainInit
  /\ r1 \in EqInputs
  /\ r2 \in EqInputs
  /\ eqResult = Null
  /\ text = Null

\* isEqual(r1, r2) is called
Compare ==
  /\ eqResult = Null
  /\ eqResult' = Some(isEqual(r1, r2))
  /\ UNCHANGED << r1, r2, text >>
  /\ UNCHANGED mainVars

\* convertDetailedActivityReportToText(r1) is called
Render ==
  /\ text = Null
  /\ r1 # Null
  /\ text' = Some(convertDetailedActivityReportToText(r1[1]))
  /\ UNCHANGED << r1, r2, eqResult >>
  /\ UNCHANGED mainVars

NextPure ==
  \/ Compare
  \/ Render

SpecPure == InitPure /\ [][NextPure]_vars

----------------------------------------------------------------------------
(* Properties *)

AfterLoopPcs == {"notifyEnd", "notifyDetail", "logFinal", "done"}

\* the step that completes a tick: the report is returned to main, which
\* compares, prints and evaluates the loop condition
TickEnds == pc = "getParent" /\ pc' \in {"loop", "notifyEnd", "logFinal"}

SummaryStatus(optReport) == optReport[1][Len(optReport[1])].activity_status

\* C1: on every tick the loop goes round again exactly when the status of
\* the summary record of the fresh report is none of succeeded, failed,
\* canceled; otherwise it exits on that tick, and once it has exited no
\* further report is fetched.
C1_LoopExitsOnFirstTerminalTick ==
  [][ /\ TickEnds =>
           /\ SummaryStatus(newActivityReport') \notin Terminal => pc' = "loop"
           /\ SummaryStatus(newActivityReport') \in Terminal => pc' \in AfterLoopPcs
      /\ pc \in AfterLoopPcs =>
           /\ pc' \notin LoopPcs
           /\ newActivityReport' = newActivityReport
           /\ calls' \cap {"getChildActivities", "getActivities"} =
              calls \cap {"getChildActivities", "getActivities"} ]_vars

\* the loop has exited on a tick whose summary status is canceled
C1_Witness ==
  /\ pc \in AfterLoopPcs
  /\ SummaryStatus(newActivityReport) = "canceled"

LowerName(r) == toLowerCase(Chars(r.computer_name))

\* C2: every report returned holds exactly one record per fetched child
\* activity, followed by one summary record (the sentinel name, the status
\* of the parent) as last element, and the child records are in ascending
\* order of hostname compared without regard to case.
C2_ReportShape ==
  [][ TickEnds =>
        LET new == newActivityReport'[1]
            k == Len(childActivities)
        IN  /\ Len(new) = k + 1
            /\ new[k + 1].computer_name = gSummaryRecord
            /\ new[k + 1].activity_status = apiParent[1].activity_status
            /\ \A i \in 1..k : new[i].computer_name # gSummaryRecord
            /\ \E p \in [1..k -> 1..k] :
                 /\ \A i, j \in 1..k : i # j => p[i] # p[j]
                 /\ \A i \in 1..k :
                      /\ new[i].activity_id = childActivities[p[i]].id
                      /\ new[i].computer_id = JsNum(childActivities[p[i]].computer_id)
                      /\ new[i].activity_status = childActivities[p[i]].activity_status
                      /\ new[i].computer_name = Hostname(childActivities[p[i]].computer_id)
            /\ \A i, j \in 1..k : i < j => ~StrLess(LowerName(new[j]), LowerName(new[i])) ]_vars

\* a report whose two child records were fetched in the other order, and
\* whose names a comparison with regard to case would order the other way
C2_Witness ==
  /\ newActivityReport # Null
  /\ Len(newActivityReport[1]) = 3
  /\ newActivityReport[1][1].computer_name = "a-host"
  /\ newActivityReport[1][2].computer_name = "B-host"
  /\ childActivities[1].computer_id = 1

Kinds(ns) == [i \in 1..Len(ns) |-> ns[i].kind]

ArgsMissing ==
  /\ program # Null
  /\ (program[1].script = "undefined" \/ program[1].tag = "undefined")

\* C4: when --script or --tag is missing the run stops in
\* processCommandLineArgs before any remote call: no server resolution, no
\* notification, no script dispatch, no status fetch.
C4_MissingFlagNoRemoteCall ==
  ArgsMissing =>
    /\ pc = "help"
    /\ calls = {}
    /\ gServers = Null
    /\ notifications = << >>
    /\ parentActivity = Null
    /\ newActivityReport = Null

\* the run has stopped with --tag missing and --script given
C4_Witness ==
  /\ pc = "help"
  /\ program[1].tag = "undefined"
  /\ program[1].script = "28"

C6_PrintIffChanged ==
  [][ TickEnds =>
        /\ printed' = (oldActivityReport # newActivityReport')
        /\ oldActivityReport = Null => printed'
        /\ printed' => console' = newActivityReport'
        /\ ~printed' => console' = console
        /\ oldActivityReport' = newActivityReport'
        /\ (pc' = "loop") = (SummaryStatus(newActivityReport') \notin Terminal) ]_vars

\* a tick found the report unchanged, printed nothing, and the loop goes on
C6_Witness ==
  /\ pc = "loop"
  /\ oldActivityReport # Null
  /\ printed = FALSE

UnknownComputer ==
  \E i \in 1..Len(apiChildren) : apiChildren[i].computer_id \notin DOMAIN gServers[1]

C8_IsEqualStructural ==
  eqResult # Null => (eqResult[1] <=> (r1 = r2))

\* two reports that differ only in the activity_id of one record were
\* compared and found different
C8_Witness ==
  /\ eqResult = Some(FALSE)
  /\ r1 # Null /\ r2 # Null
  /\ Len(r1[1]) = Len(r2[1])
  /\ \E i \in 1..Len(r1[1]) :
       /\ r1[1][i].activity_id # r2[1][i].activity_id
       /\ r2[1] = [r1[1] EXCEPT ![i].activity_id = r2[1][i].activity_id]

\* the text up to, and after, its first newline
RECURSIVE FirstLine(_)
FirstLine(cs) ==
  IF cs = << >> \/ Head(cs) = 10 THEN << >> ELSE << Head(cs) >> \o FirstLine(Tail(cs))

\* the newline-terminated lines of a text; a trailing unterminated piece
\* counts as one more line, with the marker -1 appended
RECURSIVE Lines(_)
Lines(cs) ==
  IF cs = << >> THEN << >>
  ELSE LET line == FirstLine(cs)
       IN  IF Len(line) = Len(cs)
           THEN << line \o << -1 >> >>
           ELSE << line >> \o Lines(SubSeq(cs, Len(line) + 2, Len(cs)))

\* C9: the text of a report is, in report order, one line
\* '<computer_name>: <activity_status>' per record, each ended by a
\* newline: as many lines as records, the line of the last record last.
C9_OneLinePerRecord ==
  text # Null =>
    LET lines == Lines(text[1])
        rep == r1[1]
    IN  /\ Len(lines) = Len(rep)
        /\ \A i \in 1..Len(rep) :
             lines[i] = Chars(rep[i].computer_name) \o << 58, 32 >> \o
                        Chars(rep[i].activity_status)

\* a report of two records ending in the summary record was rendered
C9_Witness ==
  /\ text # Null
  /\ Len(r1[1]) = 2
  /\ r1[1][2].computer_name = gSummaryRecord
  /\ r1[1][1].computer_name # gSummaryRecord

ParentReportsTerminal ==
  /\ apiParent # << >>
  /\ apiParent[1].activity_status \in Terminal

C11_TerminalReportPrinted ==
  [][ (TickEnds /\ pc' # "loop") =>
        /\ \/ oldActivityReport = Null
           \/ SummaryStatus(oldActivityReport) \notin Terminal
        /\ SummaryStatus(newActivityReport') \in Terminal
        /\ oldActivityReport # newActivityReport'
        /\ printed'
        /\ console' = newActivityReport' ]_vars

\* the loop has been left on a report whose child records all show a
\* finished status, and that report is the one on the console
C11_Witness ==
  /\ pc \in AfterLoopPcs
  /\ printed
  /\ console = newActivityReport
  /\ Len(newActivityReport[1]) = 3
  /\ \A i \in 1..2 : newActivityReport[1][i].activity_status \in ChildFinished

\* the remote never shows a finished parent next to an unfinished child
ApiOrdered ==
  ParentReportsTerminal => AllChildrenFinished(apiChildren)

\* C12: while the remote marks the parent activity finished only after all
\* of its child activities have finished, the report on which the loop
\* exits, which is also the text of the detail notification, shows every
\* child record with a finished status.
C12_ExitReportChildrenFinished ==
  (ApiOrdered /\ pc \in AfterLoopPcs) =>
    /\ \A i \in 1..(Len(newActivityReport[1]) - 1) :
          newActivityReport[1][i].activity_status \in Terminal
    /\ \A k \in 1..Len(notifications) :
          notifications[k].kind = "detail" =>
            notifications[k].text = convertDetailedActivityReportToText(newActivityReport[1])

====
